---- MODULE Spec2Model ----
(***************************************************************************)
(* Model of the raster-analysis core of NPDS4Clib:                         *)
(*   src/src/clear_border.cpp        _floodFill, _bwlabel, bwlabel,        *)
(*                                   get_border_indices, create_label_mask,*)
(*                                   create_clear_mask, clear_border_pixels*)
(*                                   clear_border                          *)
(*   src/src/regionprops_bbox.cpp    regionprops_bbox                      *)
(*   src/src/process_lung_regions.cpp filter_lung_regions,                 *)
(*                                   process_lung_regions                  *)
(*                                                                         *)
(* A matrix is a record [nrow, ncol, d] whose d is the column-major        *)
(* storage of an R matrix: element (i, j) lives at d[i + j * nrow].        *)
(* Numeric samples are modelled by integers (the code only compares them   *)
(* with 0.0 and copies them).                                              *)
(***************************************************************************)
EXTENDS Integers, Sequences, FiniteSets, TLC

VARIABLES
    called,         \* the exported functions that have returned or failed
    x,              \* the caller's raster (argument of bwlabel / clear_border)
    buffer_size,    \* clear_border argument
    bgval,          \* clear_border argument
    out,            \* matrix returned by clear_border
    labeled_image,  \* Label Grid (bwlabel result / regionprops_bbox input)
    num_labels,     \* label count (bwlabel result / regionprops_bbox input)
    label_mask,     \* per-label clear flags built inside clear_border
    bboxes,         \* table returned by regionprops_bbox
    label_image,    \* the caller's label grid handed to process_lung_regions
    regions,        \* region table handed to process_lung_regions
    result,         \* outcome of process_lung_regions
    fill            \* state of one running _floodFill<int>

vars == <<called, x, buffer_size, bgval, out, labeled_image, num_labels,
          label_mask, bboxes, label_image, regions, result, fill>>

(***************************************************************************)
(* Bounds of the model.                                                    *)
(***************************************************************************)
MaxCells == 9       \* rasters have at most MaxCells cells, in any shape
MaxVal == 2         \* non-zero raster samples are 1..MaxVal
MaxBuf == 1         \* buffer_size is 0..MaxBuf
BoxCells == 6       \* hand-built label grids for regionprops_bbox
BoxMaxLabel == 2    \* their labels and num_labels are 0..BoxMaxLabel
SelCells == 4       \* label grids for process_lung_regions
MaxRegions == 3     \* region tables have 0..MaxRegions rows, labels are 0..MaxRegions
FillCells == 4      \* grids for the stand-alone flood fill
FillMaxVal == 1     \* cell values and new_value are 0..FillMaxVal
MaxTol == 1         \* tolerance is 0..MaxTol
MaxStack == 3       \* cap on the pending-seed stack
MaxPaint == 2       \* cap on the per-cell paint counter

None == "none"
NA_INTEGER == (-2147483647) - 1  \* R's integer "no value"
MaxExtent == 350            \* extent threshold of process_lung_regions
BgVals == {0, 7}

(***************************************************************************)
(* Matrices                                                                *)
(***************************************************************************)
Cells(mat) == 0 .. (mat.nrow * mat.ncol - 1)
At(mat, i, j) == mat.d[i + j * mat.nrow]
RowOf(mat, p) == p % mat.nrow
ColOf(mat, p) == p \div mat.nrow
\* every matrix of at most N cells with entries in Vals
Shapes(N) == { rc \in (1 .. N) \X (1 .. N) : rc[1] * rc[2] <= N }
Matrices(N, Vals) ==
    UNION { { [nrow |-> rc[1], ncol |-> rc[2], d |-> f] :
              f \in [0 .. (rc[1] * rc[2] - 1) -> Vals] } : rc \in Shapes(N) }
Abs(a) == IF a < 0 THEN -a ELSE a
Min(S) == CHOOSE a \in S : \A b \in S : a <= b
Max(S) == CHOOSE a \in S : \A b \in S : a >= b

(***************************************************************************)
(* _floodFill<int>, clear_border.cpp:16-58.  m is the linear buffer,       *)
(* size = (size.x, size.y) = (nrow, ncol), a point is [x, y].              *)
(***************************************************************************)
\* the test std::fabs(m[x + y * size.x] - tc) <= tol of lines 33, 39, 42-52
Matches(m, size, px, py, tc, tol) == Abs(m[px + py * size.x] - tc) <= tol

\* lines 23-25: the collision guard; T is int and tol takes whole values, so
\* static_cast<T>(rc + tol + 1) is exact
GuardedRc(tc, rc, tol) == IF Abs(tc - rc) <= tol THEN rc + tol + 1 ELSE rc

\* lines 33-36: walk back along y while the cell matches, then step forward
RECURSIVE WalkUp(_, _, _, _, _)
WalkUp(m, size, pt, tc, tol) ==
    IF pt.y >= 0 /\ Matches(m, size, pt.x, pt.y, tc, tol)
    THEN WalkUp(m, size, [pt EXCEPT !.y = @ - 1], tc, tol)
    ELSE [pt EXCEPT !.y = @ + 1]

\* lines 42-47: the left-neighbour seed and span flag
LeftMatches(m, size, pt, tc, tol) ==
    pt.x > 0 /\ Matches(m, size, pt.x - 1, pt.y, tc, tol)
LeftBlocked(m, size, pt, tc, tol) ==
    pt.x > 0 /\ ~Matches(m, size, pt.x - 1, pt.y, tc, tol)

\* lines 49-54: the right-neighbour seed and span flag
RightMatchesNever(m, size, pt, tc, tol) == FALSE
RightMatches(m, size, pt, tc, tol) ==
    pt.x < size.x - 1 /\ Matches(m, size, pt.x + 1, pt.y, tc, tol)
RightBlocked(m, size, pt, tc, tol) ==
    pt.x < size.x - 1 /\ ~Matches(m, size, pt.x + 1, pt.y, tc, tol)

\* lines 39-56: paint along y, pushing seeds for the neighbouring lines.
\* st = [m, s, pt, spanLeft, spanRight, painted]; painted lists the painted
\* linear indices in order.
RECURSIVE PaintDown(_, _, _, _, _)
PaintDown(st, size, tc, rc, tol) ==
    IF st.pt.y < size.y /\ Matches(st.m, size, st.pt.x, st.pt.y, tc, tol)
    THEN LET pt == st.pt
             m1 == [st.m EXCEPT ![pt.x + pt.y * size.x] = rc]
             pushL == ~st.spanLeft /\ LeftMatches(m1, size, pt, tc, tol)
             s1 == IF pushL THEN Append(st.s, [x |-> pt.x - 1, y |-> pt.y])
                   ELSE st.s
             sl == IF pushL THEN TRUE
                   ELSE IF st.spanLeft /\ LeftBlocked(m1, size, pt, tc, tol)
                        THEN FALSE ELSE st.spanLeft
             pushR == ~st.spanRight /\ RightMatches(m1, size, pt, tc, tol)
             s2 == IF pushR THEN Append(s1, [x |-> pt.x + 1, y |-> pt.y])
                   ELSE s1
             sr == IF pushR THEN TRUE
                   ELSE IF st.spanRight /\ RightBlocked(m1, size, pt, tc, tol)
                        THEN FALSE ELSE st.spanRight
         IN PaintDown([m |-> m1, s |-> s2,
                       pt |-> [pt EXCEPT !.y = @ + 1],
                       spanLeft |-> sl, spanRight |-> sr,
                       painted |-> Append(st.painted, pt.x + pt.y * size.x)],
                      size, tc, rc, tol)
    ELSE st

\* lines 30-56: one iteration of while (!s.empty())
FillIter(m, s, size, tc, rc, tol) ==
    LET top == s[Len(s)]
        rest == SubSeq(s, 1, Len(s) - 1)
        start == WalkUp(m, size, top, tc, tol)
    IN PaintDown([m |-> m, s |-> rest, pt |-> start,
                  spanLeft |-> FALSE, spanRight |-> FALSE, painted |-> <<>>],
                 size, tc, rc, tol)

\* lines 29-57: the loop run to completion
RECURSIVE FillLoop(_, _, _, _, _, _)
FillLoop(m, s, size, tc, rc, tol) ==
    IF s = <<>> THEN m
    ELSE LET r == FillIter(m, s, size, tc, rc, tol)
         IN FillLoop(r.m, r.s, size, tc, rc, tol)

\* lines 17-58
_floodFill(m, size, xy, rc, tol) ==
    LET tc == m[xy.x + xy.y * size.x]
    IN FillLoop(m, <<xy>>, size, tc, GuardedRc(tc, rc, tol), tol)

(***************************************************************************)
(* _bwlabel, clear_border.cpp:61-82                                        *)
(***************************************************************************)
\* lines 67-69
InitRes(src, size) ==
    [i \in 0 .. (size.x * size.y - 1) |-> IF src[i] = 0 THEN 0 ELSE -1]

\* line 77: the label of the next component
NextIdxSkip(idx) == idx + 2
NextIdx(idx) == idx + 1

\* lines 71-80: pos runs over ky * size.x + kx with kx the inner loop
RECURSIVE BwScan(_, _, _, _)
BwScan(res, size, pos, idx) ==
    IF pos >= size.x * size.y THEN [res |-> res, idx |-> idx]
    ELSE IF res[pos] = -1
         THEN BwScan(_floodFill(res, size,
                               [x |-> pos % size.x, y |-> pos \div size.x],
                               idx, 0),
                     size, pos + 1, NextIdx(idx))
         ELSE BwScan(res, size, pos + 1, idx)

\* lines 62-82: the filled res buffer and the returned idx - 1
_bwlabel(src, size) ==
    LET r == BwScan(InitRes(src, size), size, 0, 1)
    IN [res |-> r.res, count |-> r.idx - 1]

\* lines 99-112: size = {nrow, ncol}
bwlabel(mat) ==
    LET r == _bwlabel(mat.d, [x |-> mat.nrow, y |-> mat.ncol])
    IN [labeled_image |-> [nrow |-> mat.nrow, ncol |-> mat.ncol, d |-> r.res],
        num_labels |-> r.count]

(***************************************************************************)
(* clear_border and its helpers, clear_border.cpp:115-232                  *)
(***************************************************************************)
\* line 193
ExtNoMargin(buf) == buf
Ext(buf) == buf + 1

\* lines 200-216: the cells (i, j) of the border frame set to true
BorderFrame(nrow, ncol, ext) ==
    UNION { { <<i, j>>, <<nrow - i - 1, j>> } :
            <<i, j>> \in (0 .. ext - 1) \X (0 .. ncol - 1) }
    \cup
    UNION { { <<j, i>>, <<j, ncol - i - 1>> } :
            <<i, j>> \in (0 .. ext - 1) \X (0 .. nrow - 1) }

\* lines 115-130: every label value found under a true border cell
get_border_indices(labels, borders) ==
    { At(labels, b[1], b[2]) : b \in borders }

\* line 225: indices = seq(0, num_labels); indices[k] = k for k = 0..num_labels
Indices(n) == [k \in 0 .. n |-> k]

\* lines 134-144
create_label_mask(indices, borders_indices) ==
    [i \in DOMAIN indices |-> indices[i] \in borders_indices]

\* lines 149-165: mask(i, j) = label_mask[labels(i, j)]
create_clear_mask(labels, mask_of_label) ==
    [p \in Cells(labels) |-> mask_of_label[labels.d[p]]]

\* lines 169-183
clear_border_pixels(mat, mask, bg) ==
    [mat EXCEPT !.d = [p \in Cells(mat) |-> IF mask[p] THEN bg ELSE mat.d[p]]]

\* line 190: clone() gives clear_border a buffer of its own
clone(mat) == mat

\* lines 188-232; returns the cleared clone and the per-label flags
clear_border(labels, buf, bg) ==
    LET out0 == clone(labels)
        borders == BorderFrame(out0.nrow, out0.ncol, Ext(buf))
        labeled_result == bwlabel(out0)
        border_indices == get_border_indices(labeled_result.labeled_image, borders)
        indices == Indices(labeled_result.num_labels)
        lmask == create_label_mask(indices, border_indices)
        mask == create_clear_mask(labeled_result.labeled_image, lmask)
    IN [out |-> clear_border_pixels(out0, mask, bg), label_mask |-> lmask]

(***************************************************************************)
(* Labelling and border clearing of one raster                             *)
(***************************************************************************)
MinOf(a, b) == IF a < b THEN a ELSE b

\* the rasters: any set of cells is non-zero, the non-zero sample at linear
\* position p being 1 + p % MaxVal
Rasters ==
    { [b EXCEPT !.d = [p \in Cells(b) |-> b.d[p] * (1 + (p % MaxVal))]] :
      b \in Matrices(MaxCells, {0, 1}) }

\* square rasters of side 2 * MaxBuf + 3, wide enough to have a cell outside
\* the widest border frame, whose non-zero cells lie on the middle row and
\* the middle column
CrossSide == 2 * MaxBuf + 3
CrossCells ==
    { p \in 0 .. (CrossSide * CrossSide - 1) :
        p % CrossSide = MaxBuf + 1 \/ p \div CrossSide = MaxBuf + 1 }
CrossRasters ==
    { [nrow |-> CrossSide, ncol |-> CrossSide,
       d |-> [p \in 0 .. (CrossSide * CrossSide - 1) |->
                 IF p \in S THEN 1 + (p % MaxVal) ELSE 0]] :
      S \in SUBSET CrossCells }

InitLabel ==
    /\ called = {}
    /\ x \in Rasters \cup CrossRasters
    /\ buffer_size = None /\ bgval = None
    /\ out = None /\ labeled_image = None /\ num_labels = None
    /\ label_mask = None /\ bboxes = None /\ label_image = None
    /\ regions = None /\ result = None /\ fill = None

\* R call bwlabel(x).  bwlabel and clear_border are independent entry
\* points; a behaviour makes one of the two calls on its raster.
Bwlabel ==
    /\ called = {}
    /\ LET r == bwlabel(x)
       IN /\ labeled_image' = r.labeled_image
          /\ num_labels' = r.num_labels
    /\ called' = called \cup {"bwlabel"}
    /\ UNCHANGED <<x, buffer_size, bgval, out, label_mask, bboxes,
                   label_image, regions, result, fill>>

\* R call clear_border(x, buf, bg) with buf + 1 <= min(rows, cols), so that
\* the writes of lines 205-214 stay inside the matrix; x is cloned (line 190)
\* and never written
ClearBorder ==
    /\ called = {}
    /\ \E buf \in 0 .. MaxBuf : \E bg \in BgVals :
          /\ buf + 1 <= MinOf(x.nrow, x.ncol)
          /\ LET r == clear_border(x, buf, bg)
             IN /\ out' = r.out
                /\ label_mask' = r.label_mask
          /\ buffer_size' = buf
          /\ bgval' = bg
    /\ called' = called \cup {"clear_border"}
    /\ UNCHANGED <<x, labeled_image, num_labels, bboxes,
                   label_image, regions, result, fill>>

NextLabel == Bwlabel \/ ClearBorder
SpecLabel == InitLabel /\ [][NextLabel]_vars

(***************************************************************************)
(* Connectivity, defined from the raster alone                             *)
(***************************************************************************)
NonZero(mat) == { p \in Cells(mat) : mat.d[p] # 0 }
Nbr4(mat, p, q) ==
    \/ ColOf(mat, p) = ColOf(mat, q) /\ Abs(RowOf(mat, p) - RowOf(mat, q)) = 1
    \/ RowOf(mat, p) = RowOf(mat, q) /\ Abs(ColOf(mat, p) - ColOf(mat, q)) = 1
Diagonal(mat, p, q) ==
    Abs(RowOf(mat, p) - RowOf(mat, q)) = 1 /\ Abs(ColOf(mat, p) - ColOf(mat, q)) = 1
RECURSIVE Grow(_, _)
Grow(mat, S) ==
    LET S2 == S \cup { q \in NonZero(mat) : \E p \in S : Nbr4(mat, p, q) }
    IN IF S2 = S THEN S ELSE Grow(mat, S2)
Component(mat, p) == Grow(mat, {p})
Components(mat) == { Component(mat, p) : p \in NonZero(mat) }
InFrame(mat, buf, p) ==
    \/ RowOf(mat, p) <= buf \/ RowOf(mat, p) >= mat.nrow - 1 - buf
    \/ ColOf(mat, p) <= buf \/ ColOf(mat, p) >= mat.ncol - 1 - buf
TouchesFrame(mat, buf, G) == \E p \in G : InFrame(mat, buf, p)

\* C1: after clear_border every non-zero 4-connected group with a cell in the
\* border frame is entirely background_value, and every non-zero group with no
\* cell in the frame keeps its input values.
C1_BorderGroupsCleared ==
    "clear_border" \in called =>
        \A G \in Components(x) :
            IF TouchesFrame(x, buffer_size, G)
            THEN \A p \in G : out.d[p] = bgval
            ELSE \A p \in G : out.d[p] = x.d[p]
C1_Witness ==
    /\ "clear_border" \in called /\ bgval # 0 /\ buffer_size = MaxBuf
    /\ \E G \in Components(x) :
          TouchesFrame(x, buffer_size, G) /\ \A p \in G : out.d[p] = bgval
    /\ \E G \in Components(x) :
          ~TouchesFrame(x, buffer_size, G) /\ \A p \in G : out.d[p] = x.d[p]

\* C2: label 0 found under the border frame is filtered out, so after
\* clear_border every pixel whose raster value is 0 keeps its input value,
\* whatever background_value is.
C2_BackgroundUntouched ==
    "clear_border" \in called =>
        \A p \in Cells(x) : x.d[p] = 0 => out.d[p] = x.d[p]

\* C4: label 0 iff raster value 0; two non-zero cells share a label iff they
\* are 4-connected through non-zero cells; num_labels is the number of groups.
C4_LabelsAreComponents ==
    "bwlabel" \in called =>
        /\ \A p \in Cells(x) : (labeled_image.d[p] = 0) <=> (x.d[p] = 0)
        /\ LET groups == Components(x)
           IN /\ \A p \in NonZero(x) : \A q \in NonZero(x) :
                    (labeled_image.d[p] = labeled_image.d[q])
                        <=> (\E G \in groups : p \in G /\ q \in G)
              /\ num_labels = Cardinality(groups)
C4_Witness ==
    /\ "bwlabel" \in called
    /\ num_labels >= 2
    /\ \E p \in NonZero(x) : \E q \in NonZero(x) :
          Diagonal(x, p, q) /\ labeled_image.d[p] # labeled_image.d[q]

\* C5: no cell keeps the sentinel -1, the positive labels present are exactly
\* 1..num_labels, and labels follow the first cell of each component in scan
\* order (ascending linear position).
C5_SequentialFirstEncounter ==
    "bwlabel" \in called =>
        /\ \A p \in Cells(x) : labeled_image.d[p] # -1
        /\ { labeled_image.d[p] : p \in Cells(x) } \ {0} = 1 .. num_labels
        /\ \A A \in Components(x) : \A B \in Components(x) :
              (labeled_image.d[Min(A)] < labeled_image.d[Min(B)]) <=> (Min(A) < Min(B))
C5_Witness ==
    /\ "bwlabel" \in called
    /\ num_labels >= 3
    /\ \A p \in Cells(x) : labeled_image.d[p] # -1
    /\ \E A \in Components(x) : \E B \in Components(x) :
          /\ labeled_image.d[Min(A)] = 1
          /\ labeled_image.d[Min(B)] = 2
          /\ \A p \in A : RowOf(x, p) > RowOf(x, Min(B))

(***************************************************************************)
(* regionprops_bbox, regionprops_bbox.cpp:8-50                             *)
(***************************************************************************)
\* lines 17-20: the running extents before the scan
BboxStartZeroCol(img) == [x_min |-> img.nrow, x_max |-> -1, y_min |-> 0, y_max |-> -1]
BboxStart(img) == [x_min |-> img.nrow, x_max |-> -1, y_min |-> img.ncol, y_max |-> -1]

\* lines 23-32: k enumerates (i, j) with i the outer and j the inner loop
RECURSIVE BboxScan(_, _, _, _)
BboxScan(img, label, k, acc) ==
    IF k >= img.nrow * img.ncol THEN acc
    ELSE LET i == k \div img.ncol
             j == k % img.ncol
         IN IF At(img, i, j) = label
            THEN BboxScan(img, label, k + 1,
                          [x_min |-> IF i < acc.x_min THEN i ELSE acc.x_min,
                           x_max |-> IF i > acc.x_max THEN i ELSE acc.x_max,
                           y_min |-> IF j < acc.y_min THEN j ELSE acc.y_min,
                           y_max |-> IF j > acc.y_max THEN j ELSE acc.y_max])
            ELSE BboxScan(img, label, k + 1, acc)

\* lines 35-46: the row stored for one label
BboxRow(img, label) ==
    LET acc == BboxScan(img, label, 0, BboxStart(img))
    IN IF acc.x_max # -1
       THEN <<acc.x_min, acc.x_max, acc.y_min, acc.y_max>>
       ELSE <<NA_INTEGER, NA_INTEGER, NA_INTEGER, NA_INTEGER>>

\* lines 8-50: row label - 1 of the table belongs to label
regionprops_bbox(img, n) == [r \in 0 .. (n - 1) |-> BboxRow(img, r + 1)]

InitBbox ==
    /\ called = {}
    /\ labeled_image \in Matrices(BoxCells, 0 .. BoxMaxLabel)
    /\ num_labels \in 0 .. BoxMaxLabel
    /\ x = None /\ buffer_size = None /\ bgval = None /\ out = None
    /\ label_mask = None /\ bboxes = None /\ label_image = None
    /\ regions = None /\ result = None /\ fill = None

\* R call regionprops_bbox(list(labeled_image, num_labels))
RegionpropsBbox ==
    /\ "regionprops_bbox" \notin called
    /\ bboxes' = regionprops_bbox(labeled_image, num_labels)
    /\ called' = called \cup {"regionprops_bbox"}
    /\ UNCHANGED <<x, buffer_size, bgval, out, labeled_image, num_labels,
                   label_mask, label_image, regions, result, fill>>

NextBbox == RegionpropsBbox
SpecBbox == InitBbox /\ [][NextBbox]_vars

CellsOf(img, L) == { p \in Cells(img) : img.d[p] = L }

\* C6: row L-1 of the table is (min row, max row, min col, max col) over
\* exactly the cells carrying label L, and four "no value" fields when no
\* cell carries L; the table has one row per label 1..num_labels.
C6_BboxTightOrNA ==
    "regionprops_bbox" \in called =>
        /\ DOMAIN bboxes = 0 .. (num_labels - 1)
        /\ \A L \in 1 .. num_labels :
              LET S == CellsOf(labeled_image, L)
                  rows == { RowOf(labeled_image, p) : p \in S }
                  cols == { ColOf(labeled_image, p) : p \in S }
              IN IF S = {}
                 THEN bboxes[L - 1] = <<NA_INTEGER, NA_INTEGER, NA_INTEGER, NA_INTEGER>>
                 ELSE bboxes[L - 1] = <<Min(rows), Max(rows), Min(cols), Max(cols)>>
C6_Witness ==
    /\ "regionprops_bbox" \in called
    /\ num_labels >= 2
    /\ \E L \in 1 .. num_labels : bboxes[L - 1][1] = NA_INTEGER
    /\ \E L \in 1 .. num_labels :
          /\ bboxes[L - 1][1] # NA_INTEGER
          /\ bboxes[L - 1][3] > 0
          /\ bboxes[L - 1][4] > bboxes[L - 1][3]
          /\ bboxes[L - 1][2] > bboxes[L - 1][1]
    /\ \E p \in Cells(labeled_image) : labeled_image.d[p] = 0

(***************************************************************************)
(* filter_lung_regions, process_lung_regions.cpp:5-56                      *)
(***************************************************************************)
\* the comparisons area > max_area_1 (line 29) and area > max_area_2 (line 36)
ExceedsOrTies(area, max_area) == area >= max_area
Exceeds(area, max_area) == area > max_area

\* lines 12-16: a label outside 1..region_areas.size()
InvalidLabel(label, n) == label <= 0 \/ label > n

\* lines 25-40: t = [max_area_1, max_area_2, max_label_1, max_label_2];
\* region_areas is indexed from 0, as in the code
RECURSIVE TopTwoScan(_, _, _, _)
TopTwoScan(valid_regions, region_areas, k, t) ==
    IF k > Len(valid_regions) THEN t
    ELSE LET label == valid_regions[k]
             area == region_areas[label - 1]
         IN IF Exceeds(area, t.max_area_1)
            THEN TopTwoScan(valid_regions, region_areas, k + 1,
                            [max_area_1 |-> area, max_label_1 |-> label,
                             max_area_2 |-> t.max_area_1,
                             max_label_2 |-> t.max_label_1])
            ELSE IF Exceeds(area, t.max_area_2)
                 THEN TopTwoScan(valid_regions, region_areas, k + 1,
                                 [t EXCEPT !.max_area_2 = area, !.max_label_2 = label])
                 ELSE TopTwoScan(valid_regions, region_areas, k + 1, t)

\* lines 5-56; stop is Rcpp::stop, warned is Rcpp::warning
filter_lung_regions(valid_regions, region_areas) ==
    IF valid_regions = <<>> \/ DOMAIN region_areas = {}
    THEN [stop |-> TRUE, labels |-> <<>>, warned |-> FALSE]
    ELSE IF \E k \in 1 .. Len(valid_regions) :
               InvalidLabel(valid_regions[k], Cardinality(DOMAIN region_areas))
    THEN [stop |-> TRUE, labels |-> <<>>, warned |-> FALSE]
    ELSE LET t == TopTwoScan(valid_regions, region_areas, 1,
                             [max_area_1 |-> -1, max_area_2 |-> -1,
                              max_label_1 |-> -1, max_label_2 |-> -1])
             l1 == IF t.max_label_1 # -1 THEN <<t.max_label_1>> ELSE <<>>
             l2 == IF t.max_label_2 # -1 THEN <<t.max_label_2>> ELSE <<>>
             top_two_labels == l1 \o l2
         IN [stop |-> FALSE, labels |-> top_two_labels,
             warned |-> Len(top_two_labels) < 2]

(***************************************************************************)
(* process_lung_regions, process_lung_regions.cpp:59-118                   *)
(***************************************************************************)
\* lines 60-63
NoRegionsNever(n_labels) == FALSE
NoRegions(n_labels) == n_labels = 0

\* lines 68-78: k enumerates (i, j), i outer; a label above n_labels stops
RECURSIVE Tally(_, _, _, _)
Tally(img, n_labels, k, region_areas) ==
    IF k >= img.nrow * img.ncol THEN [stop |-> FALSE, region_areas |-> region_areas]
    ELSE LET label == At(img, k \div img.ncol, k % img.ncol)
         IN IF label > 0
            THEN IF label > n_labels
                 THEN [stop |-> TRUE, region_areas |-> region_areas]
                 ELSE Tally(img, n_labels, k + 1,
                            [region_areas EXCEPT ![label - 1] = @ + 1])
            ELSE Tally(img, n_labels, k + 1, region_areas)

\* line 90
WithinExtent(row) == (row[2] - row[1]) < MaxExtent /\ (row[4] - row[3]) < MaxExtent

\* lines 81-93: labels i + 1 of the rows passing the extent filter, in order
RECURSIVE ValidRegions(_, _)
ValidRegions(regs, i) ==
    IF i >= Len(regs) THEN <<>>
    ELSE (IF WithinExtent(regs[i + 1]) THEN <<i + 1>> ELSE <<>>)
         \o ValidRegions(regs, i + 1)

SeqRange(q) == { q[k] : k \in 1 .. Len(q) }

\* lines 104-111
ResetOthers(img, top_two_labels) ==
    [img EXCEPT !.d = [p \in Cells(img) |->
        IF img.d[p] > 0 /\ img.d[p] \notin SeqRange(top_two_labels)
        THEN 0 ELSE img.d[p]]]

\* lines 59-118.  buffer is the memory behind the label_image argument when
\* the function exits, by return or by Rcpp::stop.
process_lung_regions(img, regs) ==
    LET n_labels == Len(regs)
    IN IF NoRegions(n_labels)
       THEN [status |-> "stop", buffer |-> img, warned |-> FALSE]
       ELSE LET t == Tally(img, n_labels, 0, [a \in 0 .. (n_labels - 1) |-> 0])
            IN IF t.stop
               THEN [status |-> "stop", buffer |-> img, warned |-> FALSE]
               ELSE LET valid_regions == ValidRegions(regs, 0)
                        f == IF Len(valid_regions) > 2
                             THEN filter_lung_regions(valid_regions, t.region_areas)
                             ELSE [stop |-> FALSE, labels |-> valid_regions,
                                   warned |-> FALSE]
                    IN IF f.stop
                       THEN [status |-> "stop", buffer |-> img, warned |-> FALSE]
                       ELSE [status |-> "ok",
                             buffer |-> ResetOthers(img, f.labels),
                             processed_image |-> ResetOthers(img, f.labels),
                             valid_regions |-> f.labels,
                             warned |-> f.warned]

RegionRows == { <<0, 349, 0, 349>>, <<0, 350, 0, 0>>, <<0, 0, 0, 350>> }
RegionTables == UNION { [1 .. n -> RegionRows] : n \in 0 .. MaxRegions }

InitSelect ==
    /\ called = {}
    /\ label_image \in Matrices(SelCells, 0 .. MaxRegions)
    /\ regions \in RegionTables
    /\ x = None /\ buffer_size = None /\ bgval = None /\ out = None
    /\ labeled_image = None /\ num_labels = None /\ label_mask = None
    /\ bboxes = None /\ result = None /\ fill = None

\* R call process_lung_regions(label_image, regions).  The IntegerMatrix
\* parameter (line 59) wraps the caller's own vector when that vector is of
\* integer type (INTSXP), so the writes of line 108 land in the caller's
\* grid; a double vector (REALSXP) is coerced into a fresh copy first.
ProcessLungRegions ==
    /\ "process_lung_regions" \notin called
    /\ \E sexp \in {"INTSXP", "REALSXP"} :
          LET r == process_lung_regions(label_image, regions)
          IN /\ result' = r @@ [sexp |-> sexp, before |-> label_image]
             /\ label_image' = IF sexp = "INTSXP" THEN r.buffer ELSE label_image
    /\ called' = called \cup {"process_lung_regions"}
    /\ UNCHANGED <<x, buffer_size, bgval, out, labeled_image, num_labels,
                   label_mask, bboxes, regions, fill>>

NextSelect == ProcessLungRegions
SpecSelect == InitSelect /\ [][NextSelect]_vars

(***************************************************************************)
(* Region selection, stated from the arguments alone                       *)
(***************************************************************************)
Candidates == { L \in 1 .. Len(regions) :
                   /\ regions[L][2] - regions[L][1] < MaxExtent
                   /\ regions[L][4] - regions[L][3] < MaxExtent }
AreaOf(L) == Cardinality(CellsOf(result.before, L))
\* a ranks before b: larger area, or equal area and earlier in candidate order
RanksBefore(a, b) == AreaOf(a) > AreaOf(b) \/ (AreaOf(a) = AreaOf(b) /\ a < b)
Best(S) == CHOOSE a \in S : \A b \in S \ {a} : RanksBefore(a, b)
Returned == "process_lung_regions" \in called /\ result.status = "ok"
Failed == "process_lung_regions" \in called /\ result.status = "stop"

\* C3: no call writes into the caller's grid: neither clear_border into its
\* raster nor process_lung_regions into its label_image.
C3_CallerGridsUntouched == [][x' = x /\ label_image' = label_image]_vars

\* C7: at most 2 labels are kept; with more than 2 candidates the kept list is
\* the candidate of largest area followed by the largest of the rest, equal
\* areas ranked by candidate order.
C7_TopTwoByArea ==
    Returned =>
        /\ Len(result.valid_regions) <= 2
        /\ Cardinality(Candidates) > 2 =>
              LET first == Best(Candidates)
                  second == Best(Candidates \ {first})
              IN result.valid_regions = <<first, second>>
C7_Witness ==
    /\ Returned
    /\ Cardinality(Candidates) > 2
    /\ Len(result.valid_regions) = 2
    /\ result.valid_regions[1] > result.valid_regions[2]
    /\ \E L \in Candidates :
          /\ L \notin SeqRange(result.valid_regions)
          /\ AreaOf(L) = AreaOf(result.valid_regions[2])
          /\ AreaOf(L) > 0

\* C8: with fewer than 2 candidates the call returns normally and has
\* emitted the soft warning.
C8_WarnsBelowTwo ==
    ("process_lung_regions" \in called /\ Cardinality(Candidates) < 2
        /\ Len(regions) > 0
        /\ \A p \in Cells(result.before) : result.before.d[p] <= Len(regions)) =>
        /\ result.status = "ok"
        /\ result.warned

\* C9: an empty region table or a label above the number of regions ends the
\* call in a hard failure, and at a hard failure the label grid is still as
\* it was before the call and no kept-label list is returned.
C9_HardFailureNoPartial ==
    "process_lung_regions" \in called =>
        /\ (Len(regions) = 0
              \/ \E p \in Cells(result.before) : result.before.d[p] > Len(regions))
              => result.status = "stop"
        /\ result.status = "stop" =>
              /\ result.buffer = result.before
              /\ label_image = result.before
              /\ "valid_regions" \notin DOMAIN result
              /\ "processed_image" \notin DOMAIN result
C9_Witness ==
    /\ Failed
    /\ Len(regions) >= 2
    /\ Cardinality(Candidates) = 1
    /\ \E p \in Cells(label_image) : label_image.d[p] > Len(regions)
    /\ \E p \in Cells(label_image) :
          label_image.d[p] > 0 /\ label_image.d[p] <= Len(regions)
             /\ label_image.d[p] \notin Candidates
C9_WitnessEmptyTable ==
    Failed /\ Len(regions) = 0

(***************************************************************************)
(* One _floodFill<int> call on its own, one step per pass of the loop of   *)
(* clear_border.cpp:29-57.  count[p] is the number of times cell p has     *)
(* been written by line 40.                                                *)
(***************************************************************************)
FillInputs ==
    { [m |-> g.d, size |-> [x |-> g.nrow, y |-> g.ncol],
       xy |-> [x |-> p % g.nrow, y |-> p \div g.nrow],
       new_value |-> v, tol |-> t] :
      <<g, p, v, t>> \in
          { q \in Matrices(FillCells, 0 .. FillMaxVal)
                  \X (0 .. (FillCells - 1))
                  \X (0 .. FillMaxVal) \X (0 .. MaxTol) :
              q[2] < q[1].nrow * q[1].ncol } }

InitFill ==
    /\ called = {}
    /\ \E i \in FillInputs :
          fill = [at |-> "entry", m |-> i.m, size |-> i.size, xy |-> i.xy,
                  tol |-> i.tol, new_value |-> i.new_value,
                  tc |-> 0, rc |-> i.new_value, s |-> <<>>,
                  count |-> [p \in DOMAIN i.m |-> 0]]
    /\ x = None /\ buffer_size = None /\ bgval = None /\ out = None
    /\ labeled_image = None /\ num_labels = None /\ label_mask = None
    /\ bboxes = None /\ label_image = None /\ regions = None /\ result = None

\* lines 18-27: read the target, apply the collision guard, push the seed
FillEnter ==
    /\ fill.at = "entry"
    /\ LET tc == fill.m[fill.xy.x + fill.xy.y * fill.size.x]
       IN fill' = [fill EXCEPT !.at = "loop", !.tc = tc,
                               !.rc = GuardedRc(tc, fill.new_value, fill.tol),
                               !.s = <<fill.xy>>]
    /\ UNCHANGED <<called, x, buffer_size, bgval, out, labeled_image,
                   num_labels, label_mask, bboxes, label_image, regions, result>>

Occurrences(q, p) == Cardinality({ k \in 1 .. Len(q) : q[k] = p })

\* lines 29-56: one pass of while (!s.empty())
FillPass ==
    /\ fill.at = "loop"
    /\ fill.s # <<>>
    /\ LET r == FillIter(fill.m, fill.s, fill.size, fill.tc, fill.rc, fill.tol)
           cnt == [p \in DOMAIN fill.m |-> fill.count[p] + Occurrences(r.painted, p)]
       IN /\ Len(r.s) <= MaxStack
          /\ \A p \in DOMAIN cnt : cnt[p] <= MaxPaint
          /\ fill' = [fill EXCEPT !.m = r.m, !.s = r.s, !.count = cnt]
    /\ UNCHANGED <<called, x, buffer_size, bgval, out, labeled_image,
                   num_labels, label_mask, bboxes, label_image, regions, result>>

\* line 29 with the stack empty: the function returns
FillReturn ==
    /\ fill.at = "loop"
    /\ fill.s = <<>>
    /\ fill' = [fill EXCEPT !.at = "returned"]
    /\ called' = called \cup {"_floodFill"}
    /\ UNCHANGED <<x, buffer_size, bgval, out, labeled_image,
                   num_labels, label_mask, bboxes, label_image, regions, result>>

NextFill == FillEnter \/ FillPass \/ FillReturn
SpecFill == InitFill /\ [][NextFill]_vars

\* C10: once the collision guard has run, the value painted differs from the
\* target by more than the tolerance, and no cell is painted twice in a fill.
C10_GuardSeparatesPaint ==
    fill.at # "entry" =>
        /\ Abs(fill.rc - fill.tc) > fill.tol
        /\ \A p \in DOMAIN fill.m : fill.count[p] <= 1

====
